---- MODULE Spec2Model ----
(***************************************************************************)
(* Model of beacon-chain/rpc/beaconv1/pool.go: the six pool handlers of    *)
(* the beaconv1 Server (List/Submit for attester slashings, proposer       *)
(* slashings and voluntary exits).  Each handler runs as a request whose   *)
(* position (pc) advances by one collaborator call per step, so that       *)
(* requests interleave exactly where the Go code can be interleaved: at    *)
(* the calls to ChainInfoFetcher, SlashingsPool / VoluntaryExitsPool,      *)
(* featureconfig and Broadcaster.                                          *)
(***************************************************************************)
EXTENDS Integers, Sequences, FiniteSets, TLC

\* ------------------------------------------------------------------ bounds
NumReqs == 2      \* requests issued in one behaviour (they may overlap)
NumKeys == 2      \* validator indices a submitted object may name
NumHeads == 2     \* distinct canonical head states

Reqs == 1..NumReqs
Keys == 1..NumKeys
Kinds == {"att", "prop", "exit"}
Sigs == {"a", "b", "bad"}

VARIABLES
    head,        \* the canonical head: 0 = none (HeadState fails), else 1..NumHeads
    flag,        \* featureconfig.Get().DisableBroadcastSlashings
    pool,        \* [Kinds -> sequence of v1alpha1 objects], in iteration order
    network,     \* sequence of [by, kind, msg]: the objects handed to Broadcast successfully
    pc,          \* position of each request in its handler
    op,          \* the handler each request runs
    req,         \* the request argument (a v1 object; NoObj for List)
    headState,   \* the handler's local headState
    validator,   \* the handler's local validator (SubmitVoluntaryExit)
    res,         \* the response: [code, msg, data]
    calls,       \* history: the collaborator calls the request made, with arguments
    undisturbed  \* history: the request inserted, and its key was not consumed since

vars == <<head, flag, pool, network, pc, op, req, headState, validator, res,
          calls, undisturbed>>

\* -------------------------------------------------------- wire translation
WireObjs == [ver : {"v1"}, key : Keys, sig : Sigs]
NoObj == [ver |-> "none", key |-> 0, sig |-> "none"]

\* a SignedVoluntaryExit whose Exit is nil (what an empty request decodes
\* to): it names no validator index, written as key 0
NilExit == [ver |-> "v1", key |-> 0, sig |-> "a"]
HasExit(o) == o.key # 0
\* the requests SubmitVoluntaryExit may be given
ExitReqs == WireObjs \cup {NilExit}

V1ToV1Alpha1(o) == [ver |-> "v1alpha1", key |-> o.key, sig |-> o.sig]
V1Alpha1ToV1(o) == [ver |-> "v1", key |-> o.key, sig |-> o.sig]

\* ------------------------------------------------------------- head states
GenesisRoot == "genesis"
NilState == [slot |-> 0, fork |-> 0, genesisRoot |-> "nil", validators |-> <<>>]
NilValidator == [index |-> 0, active |-> FALSE]

Min(a, b) == IF a < b THEN a ELSE b

\* the head state at head h: the registry has grown to the indices 1..h (at
\* most NumKeys), and validator i has left the active set from head i + 1 on
StateAt(h) ==
    [slot |-> h, fork |-> h \div 2, genesisRoot |-> GenesisRoot,
     validators |-> [i \in 1..Min(h, NumKeys) |-> [index |-> i, active |-> i >= h]]]

\* ChainInfoFetcher.HeadState: <<state, err>>
HeadState(h) == IF h = 0 THEN <<NilState, "no head state">> ELSE <<StateAt(h), "nil">>

\* BeaconState.ValidatorAtIndexReadOnly: <<validator, err>>
ValidatorAtIndexReadOnly(st, idx) ==
    IF idx \in 1..Len(st.validators)
    THEN <<st.validators[idx], "nil">>
    ELSE <<NilValidator, "index out of range">>

\* --------------------------------------------------------------- validator
VerifySlashing(st, s) ==
    IF s.sig = "bad" THEN "signature mismatch"
    ELSE IF s.key \notin 1..Len(st.validators) THEN "unknown validator"
    ELSE IF ~st.validators[s.key].active THEN "validator is not slashable"
    ELSE "nil"

VerifyAttesterSlashing(st, s) == VerifySlashing(st, s)
VerifyProposerSlashing(st, s) == VerifySlashing(st, s)

VerifyExitAndSignature(val, slot, fork, exit, genesisRoot) ==
    IF ~val.active THEN "validator already exited"
    ELSE IF exit.sig = "bad" \/ val.index # exit.key \/ genesisRoot # GenesisRoot
              \/ fork # slot \div 2
         THEN "signature mismatch"
    ELSE "nil"

\* -------------------------------------------------------------------- pools
PoolKeys(p) == {p[i].key : i \in 1..Len(p)}
KeyIndex(p, k) == CHOOSE i \in 1..Len(p) : p[i].key = k

\* the results an insertion into p may have: the pool is keyed by the
\* validator index; a new key is appended, a known key keeps its entry or is
\* superseded by the new report
PoolInsert(p, st, o) ==
    IF o.key \in PoolKeys(p)
    THEN {p, [p EXCEPT ![KeyIndex(p, o.key)] = o]}
    ELSE {Append(p, o)}

\* PendingAttesterSlashings / PendingProposerSlashings / PendingExits with
\* noLimit = true
Pending(p, st, noLimit) == IF noLimit \/ p = <<>> THEN p ELSE <<p[1]>>

\* the Submit handler that feeds pool k
SubmitOf(k) ==
    IF k = "att" THEN "SubmitAttesterSlashing"
    ELSE IF k = "prop" THEN "SubmitProposerSlashing"
    ELSE "SubmitVoluntaryExit"

RemoveAt(p, i) == SubSeq(p, 1, i - 1) \o SubSeq(p, i + 1, Len(p))

\* --------------------------------------------------------------- responses
NoRes == [code |-> "none", msg |-> "", cause |-> "nil", data |-> <<>>]
Empty == [code |-> "OK", msg |-> "", cause |-> "nil", data |-> <<>>]
Data(d) == [code |-> "OK", msg |-> "data", cause |-> "nil", data |-> d]
\* status.Errorf(codes.Internal, m + ": %v", err)
Internal(m, err) == [code |-> "Internal", msg |-> m, cause |-> err, data |-> <<>>]
\* the handler did not return: it panicked on a nil pointer dereference
Panic == [code |-> "panic", msg |-> "nil pointer dereference", cause |-> "nil", data |-> <<>>]

\* the translation loop of the List handlers: element i is the v1 form of
\* pool element i
Translate(s) == [i \in 1..Len(s) |-> V1Alpha1ToV1(s[i])]

\* one entry of a request's call history: the callee, its arguments, what it returned
Call(fn, args, ret) == [fn |-> fn, args |-> args, ret |-> ret]

\* -------------------------------------------------------------------- Init
Init ==
    /\ head = 1
    /\ flag = FALSE
    /\ pool = [k \in Kinds |-> <<>>]
    /\ network = <<>>
    /\ pc = [r \in Reqs |-> "idle"]
    /\ op = [r \in Reqs |-> "none"]
    /\ req = [r \in Reqs |-> NoObj]
    /\ headState = [r \in Reqs |-> NilState]
    /\ validator = [r \in Reqs |-> NilValidator]
    /\ res = [r \in Reqs |-> NoRes]
    /\ calls = [r \in Reqs |-> <<>>]
    /\ undisturbed = [r \in Reqs |-> FALSE]

\* the step every handler starts with: headState, err := HeadState(ctx)

\* mutant: the error of HeadState is not returned, the handler goes on
FetchHead_ErrIgnored(r, name, arg, next) ==
    /\ pc[r] = "idle"
    /\ op' = [op EXCEPT ![r] = name]
    /\ req' = [req EXCEPT ![r] = arg]
    /\ calls' = [calls EXCEPT ![r] = Append(@, Call("HeadState", <<>>, HeadState(head)))]
    /\ pc' = [pc EXCEPT ![r] = next]
    /\ headState' = [headState EXCEPT ![r] = HeadState(head)[1]]
    /\ UNCHANGED <<head, flag, pool, network, validator, res, undisturbed>>

FetchHead(r, name, arg, next) ==
    /\ pc[r] = "idle"
    /\ op' = [op EXCEPT ![r] = name]
    /\ req' = [req EXCEPT ![r] = arg]
    /\ calls' = [calls EXCEPT ![r] = Append(@, Call("HeadState", <<>>, HeadState(head)))]
    /\ IF HeadState(head)[2] # "nil"
       THEN /\ pc' = [pc EXCEPT ![r] = "done"]
            /\ res' = [res EXCEPT ![r] = Internal("Could not get head state", HeadState(head)[2])]
            /\ UNCHANGED headState
       ELSE /\ pc' = [pc EXCEPT ![r] = next]
            /\ headState' = [headState EXCEPT ![r] = HeadState(head)[1]]
            /\ UNCHANGED res
    /\ UNCHANGED <<head, flag, pool, network, validator, undisturbed>>

\* the listing steps of a List handler for pool k

\* mutant: the response slice is one element short of the pool's listing
ListPending_OneShort(r, name, k) ==
    /\ pc[r] = "pending"
    /\ op[r] = name
    /\ LET sourceSlashings == Pending(pool[k], headState[r], TRUE)
       IN  /\ calls' = [calls EXCEPT ![r] =
                  Append(@, Call("Pending", <<k, headState[r], TRUE>>, sourceSlashings))]
           /\ res' = [res EXCEPT ![r] = Data(Translate(SubSeq(sourceSlashings, 1, Len(sourceSlashings) - 1)))]
    /\ pc' = [pc EXCEPT ![r] = "done"]
    /\ UNCHANGED <<head, flag, pool, network, op, req, headState, validator, undisturbed>>

ListPending(r, name, k) ==
    /\ pc[r] = "pending"
    /\ op[r] = name
    /\ calls' = [calls EXCEPT ![r] = Append(@, Call("Pending", <<k, headState[r], TRUE>>,
                                 Pending(pool[k], headState[r], TRUE)))]
    /\ res' = [res EXCEPT ![r] = Data(Translate(Pending(pool[k], headState[r], TRUE)))]
    /\ pc' = [pc EXCEPT ![r] = "done"]
    /\ UNCHANGED <<head, flag, pool, network, op, req, headState, validator, undisturbed>>

\* ------------------------------------------------ ListPoolAttesterSlashings
ListPoolAttesterSlashings_HeadState(r) ==
    FetchHead(r, "ListPoolAttesterSlashings", NoObj, "pending")

\* the listing as the reverse of a sequence
Reverse(q) == [i \in 1..Len(q) |-> q[Len(q) + 1 - i]]

\* mutant: the translated slashings are returned last first
ListPoolAttesterSlashings_Pending_Reversed(r) ==
    /\ pc[r] = "pending"
    /\ op[r] = "ListPoolAttesterSlashings"
    /\ calls' = [calls EXCEPT ![r] = Append(@, Call("Pending", <<"att", headState[r], TRUE>>,
                                 Pending(pool["att"], headState[r], TRUE)))]
    /\ res' = [res EXCEPT ![r] =
           Data(Reverse(Translate(Pending(pool["att"], headState[r], TRUE))))]
    /\ pc' = [pc EXCEPT ![r] = "done"]
    /\ UNCHANGED <<head, flag, pool, network, op, req, headState, validator, undisturbed>>

ListPoolAttesterSlashings_Pending(r) ==
    ListPending(r, "ListPoolAttesterSlashings", "att")

\* --------------------------------------------------- SubmitAttesterSlashing
SubmitAttesterSlashing_HeadState(r, o) ==
    FetchHead(r, "SubmitAttesterSlashing", o, "verify")


\* mutant: the slashing is verified against the head of the moment, not
\* against the snapshot the handler fetched
SubmitAttesterSlashing_Verify_CurrentHead(r) ==
    /\ pc[r] = "verify"
    /\ op[r] = "SubmitAttesterSlashing"
    /\ LET alphaSlashing == V1ToV1Alpha1(req[r])
           now == IF head = 0 THEN headState[r] ELSE StateAt(head)
           err == VerifyAttesterSlashing(now, alphaSlashing)
       IN  /\ calls' = [calls EXCEPT ![r] =
                  Append(@, Call("Verify", <<now, alphaSlashing>>, err))]
           /\ IF err # "nil"
              THEN /\ pc' = [pc EXCEPT ![r] = "done"]
                   /\ res' = [res EXCEPT ![r] = Internal("Invalid attester slashing", err)]
              ELSE /\ pc' = [pc EXCEPT ![r] = "insert"]
                   /\ UNCHANGED res
    /\ UNCHANGED <<head, flag, pool, network, op, req, headState, validator, undisturbed>>

SubmitAttesterSlashing_Verify(r) ==
    /\ pc[r] = "verify"
    /\ op[r] = "SubmitAttesterSlashing"
    /\ LET alphaSlashing == V1ToV1Alpha1(req[r])
           err == VerifyAttesterSlashing(headState[r], alphaSlashing)
       IN  /\ calls' = [calls EXCEPT ![r] =
                  Append(@, Call("Verify", <<headState[r], alphaSlashing>>, err))]
           /\ IF err # "nil"
              THEN /\ pc' = [pc EXCEPT ![r] = "done"]
                   /\ res' = [res EXCEPT ![r] = Internal("Invalid attester slashing", err)]
              ELSE /\ pc' = [pc EXCEPT ![r] = "insert"]
                   /\ UNCHANGED res
    /\ UNCHANGED <<head, flag, pool, network, op, req, headState, validator, undisturbed>>


\* mutant: the insertion error is not returned, the handler goes on to broadcast
SubmitAttesterSlashing_Insert_ErrIgnored(r) ==
    /\ pc[r] = "insert"
    /\ op[r] = "SubmitAttesterSlashing"
    /\ LET alphaSlashing == V1ToV1Alpha1(req[r])
           args == <<"att", headState[r], alphaSlashing>>
       IN  \/ /\ calls' = [calls EXCEPT ![r] = Append(@, Call("Insert", args, "insert failed"))]
              /\ UNCHANGED <<pool, undisturbed>>
           \/ /\ calls' = [calls EXCEPT ![r] = Append(@, Call("Insert", args, "nil"))]
              /\ \E p \in PoolInsert(pool["att"], headState[r], alphaSlashing) :
                     pool' = [pool EXCEPT !["att"] = p]
              /\ undisturbed' = [undisturbed EXCEPT ![r] = TRUE]
    /\ pc' = [pc EXCEPT ![r] = "flag"]
    /\ UNCHANGED <<head, flag, network, op, req, headState, validator, res>>

SubmitAttesterSlashing_Insert(r) ==
    /\ pc[r] = "insert"
    /\ op[r] = "SubmitAttesterSlashing"
    /\ LET alphaSlashing == V1ToV1Alpha1(req[r])
           args == <<"att", headState[r], alphaSlashing>>
       IN  \/ /\ calls' = [calls EXCEPT ![r] = Append(@, Call("Insert", args, "insert failed"))]
              /\ pc' = [pc EXCEPT ![r] = "done"]
              /\ res' = [res EXCEPT ![r] =
                     Internal("Could not insert attester slashing into pool", "insert failed")]
              /\ UNCHANGED <<pool, undisturbed>>
           \/ /\ calls' = [calls EXCEPT ![r] = Append(@, Call("Insert", args, "nil"))]
              /\ \E p \in PoolInsert(pool["att"], headState[r], alphaSlashing) :
                     pool' = [pool EXCEPT !["att"] = p]
              /\ undisturbed' = [undisturbed EXCEPT ![r] = TRUE]
              /\ pc' = [pc EXCEPT ![r] = "flag"]
              /\ UNCHANGED res
    /\ UNCHANGED <<head, flag, network, op, req, headState, validator>>


\* if !featureconfig.Get().DisableBroadcastSlashings: the flag is read once,
\* in a step of its own, before the call to Broadcast
SubmitAttesterSlashing_FeatureFlag(r) ==
    /\ pc[r] = "flag"
    /\ op[r] = "SubmitAttesterSlashing"
    /\ calls' = [calls EXCEPT ![r] = Append(@, Call("featureconfig.Get", <<>>, flag))]
    /\ IF flag
       THEN /\ pc' = [pc EXCEPT ![r] = "done"]
            /\ res' = [res EXCEPT ![r] = Empty]
       ELSE /\ pc' = [pc EXCEPT ![r] = "broadcast"]
            /\ UNCHANGED res
    /\ UNCHANGED <<head, flag, pool, network, op, req, headState, validator, undisturbed>>

\* mutant: a failed broadcast is tried a second time before the handler returns
SubmitAttesterSlashing_Broadcast_Retry(r) ==
    /\ pc[r] = "broadcast"
    /\ op[r] = "SubmitAttesterSlashing"
    /\ pc' = [pc EXCEPT ![r] = "done"]
    /\ LET failed == Call("Broadcast", <<req[r]>>, "broadcast failed")
       IN  \/ /\ calls' = [calls EXCEPT ![r] = @ \o <<failed, failed>>]
              /\ res' = [res EXCEPT ![r] =
                     Internal("Could not broadcast slashing object", "broadcast failed")]
              /\ UNCHANGED network
           \/ /\ \E first \in {<<>>, <<failed>>} :
                     calls' = [calls EXCEPT ![r] =
                         @ \o first \o <<Call("Broadcast", <<req[r]>>, "nil")>>]
              /\ network' = Append(network, [by |-> r, kind |-> "att", msg |-> req[r]])
              /\ res' = [res EXCEPT ![r] = Empty]
    /\ UNCHANGED <<head, flag, pool, op, req, headState, validator, undisturbed>>

\* mutant: a failed broadcast takes the slashing out of the pool again
SubmitAttesterSlashing_Broadcast_Rollback(r) ==
    /\ pc[r] = "broadcast"
    /\ op[r] = "SubmitAttesterSlashing"
    /\ pc' = [pc EXCEPT ![r] = "done"]
    /\ \/ /\ calls' = [calls EXCEPT ![r] =
                 Append(@, Call("Broadcast", <<req[r]>>, "broadcast failed"))]
          /\ res' = [res EXCEPT ![r] =
                 Internal("Could not broadcast slashing object", "broadcast failed")]
          /\ pool' = [pool EXCEPT !["att"] =
                 IF req[r].key \in PoolKeys(@)
                 THEN RemoveAt(@, KeyIndex(@, req[r].key)) ELSE @]
          /\ UNCHANGED network
       \/ /\ calls' = [calls EXCEPT ![r] = Append(@, Call("Broadcast", <<req[r]>>, "nil"))]
          /\ network' = Append(network, [by |-> r, kind |-> "att", msg |-> req[r]])
          /\ res' = [res EXCEPT ![r] = Empty]
          /\ UNCHANGED pool
    /\ UNCHANGED <<head, flag, op, req, headState, validator, undisturbed>>

\* bs.Broadcaster.Broadcast(ctx, req), reached only when the flag was read false
SubmitAttesterSlashing_Broadcast(r) ==
    /\ pc[r] = "broadcast"
    /\ op[r] = "SubmitAttesterSlashing"
    /\ pc' = [pc EXCEPT ![r] = "done"]
    /\ \/ /\ calls' = [calls EXCEPT ![r] =
                 Append(@, Call("Broadcast", <<req[r]>>, "broadcast failed"))]
          /\ res' = [res EXCEPT ![r] =
                 Internal("Could not broadcast slashing object", "broadcast failed")]
          /\ UNCHANGED network
       \/ /\ calls' = [calls EXCEPT ![r] = Append(@, Call("Broadcast", <<req[r]>>, "nil"))]
          /\ network' = Append(network, [by |-> r, kind |-> "att", msg |-> req[r]])
          /\ res' = [res EXCEPT ![r] = Empty]
    /\ UNCHANGED <<head, flag, pool, op, req, headState, validator, undisturbed>>

\* ------------------------------------------------ ListPoolProposerSlashings
ListPoolProposerSlashings_HeadState(r) ==
    FetchHead(r, "ListPoolProposerSlashings", NoObj, "pending")

ListPoolProposerSlashings_Pending(r) ==
    ListPending(r, "ListPoolProposerSlashings", "prop")

\* --------------------------------------------------- SubmitProposerSlashing
SubmitProposerSlashing_HeadState(r, o) ==
    FetchHead(r, "SubmitProposerSlashing", o, "verify")


\* mutant: the verification error is not returned, the handler goes on
SubmitProposerSlashing_Verify_NoReturn(r) ==
    /\ pc[r] = "verify"
    /\ op[r] = "SubmitProposerSlashing"
    /\ LET alphaSlashing == V1ToV1Alpha1(req[r])
           err == VerifyProposerSlashing(headState[r], alphaSlashing)
       IN  calls' = [calls EXCEPT ![r] =
               Append(@, Call("Verify", <<headState[r], alphaSlashing>>, err))]
    /\ pc' = [pc EXCEPT ![r] = "insert"]
    /\ UNCHANGED <<head, flag, pool, network, op, req, headState, validator, res,
                   undisturbed>>

SubmitProposerSlashing_Verify(r) ==
    /\ pc[r] = "verify"
    /\ op[r] = "SubmitProposerSlashing"
    /\ LET alphaSlashing == V1ToV1Alpha1(req[r])
           err == VerifyProposerSlashing(headState[r], alphaSlashing)
       IN  /\ calls' = [calls EXCEPT ![r] =
                  Append(@, Call("Verify", <<headState[r], alphaSlashing>>, err))]
           /\ IF err # "nil"
              THEN /\ pc' = [pc EXCEPT ![r] = "done"]
                   /\ res' = [res EXCEPT ![r] = Internal("Invalid proposer slashing", err)]
              ELSE /\ pc' = [pc EXCEPT ![r] = "insert"]
                   /\ UNCHANGED res
    /\ UNCHANGED <<head, flag, pool, network, op, req, headState, validator, undisturbed>>


\* mutant: the proposer slashing is inserted with InsertAttesterSlashing
SubmitProposerSlashing_Insert_WrongPool(r) ==
    /\ pc[r] = "insert"
    /\ op[r] = "SubmitProposerSlashing"
    /\ LET alphaSlashing == V1ToV1Alpha1(req[r])
           args == <<"att", headState[r], alphaSlashing>>
       IN  \/ /\ calls' = [calls EXCEPT ![r] = Append(@, Call("Insert", args, "insert failed"))]
              /\ pc' = [pc EXCEPT ![r] = "done"]
              /\ res' = [res EXCEPT ![r] =
                     Internal("Could not insert proposer slashing into pool", "insert failed")]
              /\ UNCHANGED <<pool, undisturbed>>
           \/ /\ calls' = [calls EXCEPT ![r] = Append(@, Call("Insert", args, "nil"))]
              /\ \E p \in PoolInsert(pool["att"], headState[r], alphaSlashing) :
                     pool' = [pool EXCEPT !["att"] = p]
              /\ undisturbed' = [undisturbed EXCEPT ![r] = TRUE]
              /\ pc' = [pc EXCEPT ![r] = "flag"]
              /\ UNCHANGED res
    /\ UNCHANGED <<head, flag, network, op, req, headState, validator>>

\* mutant: the head state is fetched again for the insertion
SubmitProposerSlashing_Insert_Refetch(r) ==
    /\ pc[r] = "insert"
    /\ op[r] = "SubmitProposerSlashing"
    /\ LET alphaSlashing == V1ToV1Alpha1(req[r])
           again == IF head = 0 THEN headState[r] ELSE StateAt(head)
           args == <<"prop", again, alphaSlashing>>
       IN  \/ /\ calls' = [calls EXCEPT ![r] = Append(@, Call("Insert", args, "insert failed"))]
              /\ pc' = [pc EXCEPT ![r] = "done"]
              /\ res' = [res EXCEPT ![r] =
                     Internal("Could not insert proposer slashing into pool", "insert failed")]
              /\ UNCHANGED <<pool, undisturbed>>
           \/ /\ calls' = [calls EXCEPT ![r] = Append(@, Call("Insert", args, "nil"))]
              /\ \E p \in PoolInsert(pool["prop"], again, alphaSlashing) :
                     pool' = [pool EXCEPT !["prop"] = p]
              /\ undisturbed' = [undisturbed EXCEPT ![r] = TRUE]
              /\ pc' = [pc EXCEPT ![r] = "flag"]
              /\ UNCHANGED res
    /\ UNCHANGED <<head, flag, network, op, req, headState, validator>>

SubmitProposerSlashing_Insert(r) ==
    /\ pc[r] = "insert"
    /\ op[r] = "SubmitProposerSlashing"
    /\ LET alphaSlashing == V1ToV1Alpha1(req[r])
           args == <<"prop", headState[r], alphaSlashing>>
       IN  \/ /\ calls' = [calls EXCEPT ![r] = Append(@, Call("Insert", args, "insert failed"))]
              /\ pc' = [pc EXCEPT ![r] = "done"]
              /\ res' = [res EXCEPT ![r] =
                     Internal("Could not insert proposer slashing into pool", "insert failed")]
              /\ UNCHANGED <<pool, undisturbed>>
           \/ /\ calls' = [calls EXCEPT ![r] = Append(@, Call("Insert", args, "nil"))]
              /\ \E p \in PoolInsert(pool["prop"], headState[r], alphaSlashing) :
                     pool' = [pool EXCEPT !["prop"] = p]
              /\ undisturbed' = [undisturbed EXCEPT ![r] = TRUE]
              /\ pc' = [pc EXCEPT ![r] = "flag"]
              /\ UNCHANGED res
    /\ UNCHANGED <<head, flag, network, op, req, headState, validator>>


\* mutant: the flag value read by an earlier request is reused
SubmitProposerSlashing_FeatureFlag_Cached(r) ==
    /\ pc[r] = "flag"
    /\ op[r] = "SubmitProposerSlashing"
    /\ LET earlier == {q \in Reqs \ {r} :
                          \E i \in 1..Len(calls[q]) : calls[q][i].fn = "featureconfig.Get"}
           cached == IF earlier = {} THEN flag
                     ELSE LET q == CHOOSE q \in earlier : TRUE
                              i == CHOOSE i \in 1..Len(calls[q]) :
                                       calls[q][i].fn = "featureconfig.Get"
                          IN  calls[q][i].ret
       IN  /\ calls' = [calls EXCEPT ![r] = Append(@, Call("featureconfig.Get", <<>>, cached))]
           /\ IF cached
              THEN /\ pc' = [pc EXCEPT ![r] = "done"]
                   /\ res' = [res EXCEPT ![r] = Empty]
              ELSE /\ pc' = [pc EXCEPT ![r] = "broadcast"]
                   /\ UNCHANGED res
    /\ UNCHANGED <<head, flag, pool, network, op, req, headState, validator, undisturbed>>

\* mutant: the slashing is broadcast whatever DisableBroadcastSlashings says
SubmitProposerSlashing_FeatureFlag_Ungated(r) ==
    /\ pc[r] = "flag"
    /\ op[r] = "SubmitProposerSlashing"
    /\ calls' = [calls EXCEPT ![r] = Append(@, Call("featureconfig.Get", <<>>, flag))]
    /\ pc' = [pc EXCEPT ![r] = "broadcast"]
    /\ UNCHANGED <<head, flag, pool, network, op, req, headState, validator, res,
                   undisturbed>>

\* if !featureconfig.Get().DisableBroadcastSlashings: the flag is read once,
\* in a step of its own, before the call to Broadcast
SubmitProposerSlashing_FeatureFlag(r) ==
    /\ pc[r] = "flag"
    /\ op[r] = "SubmitProposerSlashing"
    /\ calls' = [calls EXCEPT ![r] = Append(@, Call("featureconfig.Get", <<>>, flag))]
    /\ IF flag
       THEN /\ pc' = [pc EXCEPT ![r] = "done"]
            /\ res' = [res EXCEPT ![r] = Empty]
       ELSE /\ pc' = [pc EXCEPT ![r] = "broadcast"]
            /\ UNCHANGED res
    /\ UNCHANGED <<head, flag, pool, network, op, req, headState, validator, undisturbed>>

\* bs.Broadcaster.Broadcast(ctx, req), reached only when the flag was read false
SubmitProposerSlashing_Broadcast(r) ==
    /\ pc[r] = "broadcast"
    /\ op[r] = "SubmitProposerSlashing"
    /\ pc' = [pc EXCEPT ![r] = "done"]
    /\ \/ /\ calls' = [calls EXCEPT ![r] =
                 Append(@, Call("Broadcast", <<req[r]>>, "broadcast failed"))]
          /\ res' = [res EXCEPT ![r] =
                 Internal("Could not broadcast slashing object", "broadcast failed")]
          /\ UNCHANGED network
       \/ /\ calls' = [calls EXCEPT ![r] = Append(@, Call("Broadcast", <<req[r]>>, "nil"))]
          /\ network' = Append(network, [by |-> r, kind |-> "prop", msg |-> req[r]])
          /\ res' = [res EXCEPT ![r] = Empty]
    /\ UNCHANGED <<head, flag, pool, op, req, headState, validator, undisturbed>>

\* --------------------------------------------------- ListPoolVoluntaryExits
ListPoolVoluntaryExits_HeadState(r) ==
    FetchHead(r, "ListPoolVoluntaryExits", NoObj, "pending")

\* PendingExits(headState, headState.Slot(), true)

\* mutant: the listing takes the listed exits out of the pool
ListPoolVoluntaryExits_Pending_Drain(r) ==
    /\ pc[r] = "pending"
    /\ op[r] = "ListPoolVoluntaryExits"
    /\ calls' = [calls EXCEPT ![r] =
           Append(@, Call("Pending", <<"exit", headState[r], headState[r].slot, TRUE>>,
                          Pending(pool["exit"], headState[r], TRUE)))]
    /\ res' = [res EXCEPT ![r] =
           Data(Translate(Pending(pool["exit"], headState[r], TRUE)))]
    /\ pool' = [pool EXCEPT !["exit"] = <<>>]
    /\ pc' = [pc EXCEPT ![r] = "done"]
    /\ UNCHANGED <<head, flag, network, op, req, headState, validator, undisturbed>>

ListPoolVoluntaryExits_Pending(r) ==
    /\ pc[r] = "pending"
    /\ op[r] = "ListPoolVoluntaryExits"
    /\ calls' = [calls EXCEPT ![r] =
           Append(@, Call("Pending", <<"exit", headState[r], headState[r].slot, TRUE>>,
                          Pending(pool["exit"], headState[r], TRUE)))]
    /\ res' = [res EXCEPT ![r] =
           Data(Translate(Pending(pool["exit"], headState[r], TRUE)))]
    /\ pc' = [pc EXCEPT ![r] = "done"]
    /\ UNCHANGED <<head, flag, pool, network, op, req, headState, validator, undisturbed>>

\* ------------------------------------------------------ SubmitVoluntaryExit
SubmitVoluntaryExit_HeadState(r, o) ==
    FetchHead(r, "SubmitVoluntaryExit", o, "lookup")


\* mutant: the lookup error is not returned, the handler validates anyway
SubmitVoluntaryExit_ValidatorAtIndex_ErrIgnored(r) ==
    /\ pc[r] = "lookup"
    /\ op[r] = "SubmitVoluntaryExit"
    /\ IF ~HasExit(req[r])
       THEN /\ pc' = [pc EXCEPT ![r] = "done"]
            /\ res' = [res EXCEPT ![r] = Panic]
            /\ UNCHANGED <<calls, validator>>
       ELSE LET got == ValidatorAtIndexReadOnly(headState[r], req[r].key)
            IN  /\ calls' = [calls EXCEPT ![r] =
                       Append(@, Call("ValidatorAtIndex", <<headState[r], req[r].key>>, got))]
                /\ validator' = [validator EXCEPT ![r] = got[1]]
                /\ pc' = [pc EXCEPT ![r] = "verify"]
                /\ UNCHANGED res
    /\ UNCHANGED <<head, flag, pool, network, op, req, headState, undisturbed>>

\* headState.ValidatorAtIndexReadOnly(req.Exit.ValidatorIndex): req.Exit is
\* dereferenced unchecked, so a request without an Exit panics before the call
SubmitVoluntaryExit_ValidatorAtIndex(r) ==
    /\ pc[r] = "lookup"
    /\ op[r] = "SubmitVoluntaryExit"
    /\ IF ~HasExit(req[r])
       THEN /\ pc' = [pc EXCEPT ![r] = "done"]
            /\ res' = [res EXCEPT ![r] = Panic]
            /\ UNCHANGED <<calls, validator>>
       ELSE LET got == ValidatorAtIndexReadOnly(headState[r], req[r].key)
            IN  /\ calls' = [calls EXCEPT ![r] =
                       Append(@, Call("ValidatorAtIndex", <<headState[r], req[r].key>>, got))]
                /\ IF got[2] # "nil"
                   THEN /\ pc' = [pc EXCEPT ![r] = "done"]
                        /\ res' = [res EXCEPT ![r] =
                               Internal("Could not get exiting validator", got[2])]
                        /\ UNCHANGED validator
                   ELSE /\ pc' = [pc EXCEPT ![r] = "verify"]
                        /\ validator' = [validator EXCEPT ![r] = got[1]]
                        /\ UNCHANGED res
    /\ UNCHANGED <<head, flag, pool, network, op, req, headState, undisturbed>>


\* mutant: the verification error is not returned, the exit is inserted anyway
SubmitVoluntaryExit_Verify_NoReturn(r) ==
    /\ pc[r] = "verify"
    /\ op[r] = "SubmitVoluntaryExit"
    /\ LET alphaExit == V1ToV1Alpha1(req[r])
           err == VerifyExitAndSignature(validator[r], headState[r].slot,
                      headState[r].fork, alphaExit, headState[r].genesisRoot)
       IN  calls' = [calls EXCEPT ![r] =
               Append(@, Call("Verify", <<validator[r], headState[r].slot,
                   headState[r].fork, alphaExit, headState[r].genesisRoot>>, err))]
    /\ pc' = [pc EXCEPT ![r] = "insert"]
    /\ UNCHANGED <<head, flag, pool, network, op, req, headState, validator, res,
                   undisturbed>>

SubmitVoluntaryExit_Verify(r) ==
    /\ pc[r] = "verify"
    /\ op[r] = "SubmitVoluntaryExit"
    /\ LET alphaExit == V1ToV1Alpha1(req[r])
           err == VerifyExitAndSignature(validator[r], headState[r].slot,
                      headState[r].fork, alphaExit, headState[r].genesisRoot)
       IN  /\ calls' = [calls EXCEPT ![r] =
                  Append(@, Call("Verify", <<validator[r], headState[r].slot,
                      headState[r].fork, alphaExit, headState[r].genesisRoot>>, err))]
           /\ IF err # "nil"
              THEN /\ pc' = [pc EXCEPT ![r] = "done"]
                   /\ res' = [res EXCEPT ![r] = Internal("Invalid voluntary exit", err)]
              ELSE /\ pc' = [pc EXCEPT ![r] = "insert"]
                   /\ UNCHANGED res
    /\ UNCHANGED <<head, flag, pool, network, op, req, headState, validator, undisturbed>>

\* InsertVoluntaryExit returns nothing: the handler always goes on to Broadcast
SubmitVoluntaryExit_Insert(r) ==
    /\ pc[r] = "insert"
    /\ op[r] = "SubmitVoluntaryExit"
    /\ LET alphaExit == V1ToV1Alpha1(req[r])
       IN  /\ calls' = [calls EXCEPT ![r] =
                  Append(@, Call("Insert", <<"exit", headState[r], alphaExit>>, "void"))]
           /\ \E p \in PoolInsert(pool["exit"], headState[r], alphaExit) :
                  pool' = [pool EXCEPT !["exit"] = p]
    /\ undisturbed' = [undisturbed EXCEPT ![r] = TRUE]
    /\ pc' = [pc EXCEPT ![r] = "broadcast"]
    /\ UNCHANGED <<head, flag, network, op, req, headState, validator, res>>


SubmitVoluntaryExit_Broadcast(r) ==
    /\ pc[r] = "broadcast"
    /\ op[r] = "SubmitVoluntaryExit"
    /\ pc' = [pc EXCEPT ![r] = "done"]
    /\ \/ /\ calls' = [calls EXCEPT ![r] =
                 Append(@, Call("Broadcast", <<req[r]>>, "broadcast failed"))]
          /\ res' = [res EXCEPT ![r] =
                 Internal("Could not broadcast voluntary exit object", "broadcast failed")]
          /\ UNCHANGED network
       \/ /\ calls' = [calls EXCEPT ![r] = Append(@, Call("Broadcast", <<req[r]>>, "nil"))]
          /\ network' = Append(network, [by |-> r, kind |-> "exit", msg |-> req[r]])
          /\ res' = [res EXCEPT ![r] = Empty]
    /\ UNCHANGED <<head, flag, pool, op, req, headState, validator, undisturbed>>

\* ------------------------------------------------------------- environment
\* fork choice moves the canonical head, or the store loses it
HeadChange(h) ==
    /\ h # head
    /\ head' = h
    /\ UNCHANGED <<flag, pool, network, pc, op, req, headState, validator, res,
                   calls, undisturbed>>

\* the process-wide feature configuration is replaced
SetFlag(b) ==
    /\ b # flag
    /\ flag' = b
    /\ UNCHANGED <<head, pool, network, pc, op, req, headState, validator, res,
                   calls, undisturbed>>

\* block production or pruning takes entry i out of pool k
Consume(k, i) ==
    /\ i \in 1..Len(pool[k])
    /\ pool' = [pool EXCEPT ![k] = RemoveAt(@, i)]
    /\ undisturbed' = [r \in Reqs |->
           IF op[r] = SubmitOf(k) /\ req[r].key = pool[k][i].key
           THEN FALSE ELSE undisturbed[r]]
    /\ UNCHANGED <<head, flag, network, pc, op, req, headState, validator, res, calls>>

\* ---------------------------------------------------------------- history
Submits == {"SubmitAttesterSlashing", "SubmitProposerSlashing", "SubmitVoluntaryExit"}
Lists == {"ListPoolAttesterSlashings", "ListPoolProposerSlashings",
          "ListPoolVoluntaryExits"}

KindOf(name) ==
    IF name \in {"SubmitAttesterSlashing", "ListPoolAttesterSlashings"} THEN "att"
    ELSE IF name \in {"SubmitProposerSlashing", "ListPoolProposerSlashings"} THEN "prop"
    ELSE "exit"

\* the positions, in the history of request r, of its calls to fn
CallsTo(r, fn) == {i \in 1..Len(calls[r]) : calls[r][i].fn = fn}
\* the network messages request r sent
SentBy(r) == {i \in 1..Len(network) : network[i].by = r}
\* the callees of request r, in call order
FnsOf(r) == [i \in 1..Len(calls[r]) |-> calls[r][i].fn]

\* request r fetched a head state, and the validator rejects its object
\* against that snapshot
RejectedBySnapshot(r) ==
    /\ op[r] \in Submits
    /\ headState[r] # NilState
    /\ IF op[r] = "SubmitVoluntaryExit"
       THEN /\ req[r].key \in 1..Len(headState[r].validators)
            /\ VerifyExitAndSignature(headState[r].validators[req[r].key],
                   headState[r].slot, headState[r].fork, V1ToV1Alpha1(req[r]),
                   headState[r].genesisRoot) # "nil"
       ELSE VerifySlashing(headState[r], V1ToV1Alpha1(req[r])) # "nil"

InvalidMsg(name) ==
    IF name = "SubmitAttesterSlashing" THEN "Invalid attester slashing"
    ELSE IF name = "SubmitProposerSlashing" THEN "Invalid proposer slashing"
    ELSE "Invalid voluntary exit"

\* ------------------------------------------------------------------ claims

\* C1 (rejection path): once the validator has rejected the object of a Submit
\* of any kind against the fetched snapshot, the request is finished with the
\* Internal "Invalid ..." error, it has called neither the pool insert nor
\* Broadcast and has sent nothing; and no step a request takes before its
\* insertion (head-state fetch, validator lookup, verification) changes a
\* pool or the network.
C1_RejectedState ==
    \A r \in Reqs :
        (RejectedBySnapshot(r) /\ pc[r] \notin {"lookup", "verify"}) =>
            /\ pc[r] = "done"
            /\ res[r].code = "Internal" /\ res[r].msg = InvalidMsg(op[r])
            /\ CallsTo(r, "Insert") = {}
            /\ CallsTo(r, "Broadcast") = {}
            /\ CallsTo(r, "Verify") # {}
            /\ SentBy(r) = {}
            /\ ~undisturbed[r]

C1_RejectionPath ==
    /\ []C1_RejectedState
    /\ [][\A r \in Reqs :
            (pc'[r] # pc[r] /\ pc[r] \in {"idle", "lookup", "verify"}) =>
                (pool' = pool /\ network' = network)]_vars

\* a Submit was rejected while another request of the same kind had admitted
\* and broadcast its object
C1_Witness ==
    \E r, q \in Reqs :
        /\ r # q
        /\ RejectedBySnapshot(r) /\ pc[r] = "done"
        /\ op[q] = op[r] /\ res[q] = Empty /\ SentBy(q) # {}
        /\ pool[KindOf(op[r])] # <<>>

\* C2 (admission before broadcast): every Broadcast call of a request comes
\* after an insertion call of that same request, for the same object, that
\* returned without error; and every message on the network was sent by such
\* a Broadcast call.
C2_AdmissionBeforeBroadcast ==
    /\ \A r \in Reqs : \A i \in CallsTo(r, "Broadcast") :
           \E j \in CallsTo(r, "Insert") :
               /\ j < i
               /\ calls[r][j].ret \in {"nil", "void"}
               /\ calls[r][j].args[1] = KindOf(op[r])
               /\ calls[r][j].args[3] = V1ToV1Alpha1(calls[r][i].args[1])
    /\ \A n \in 1..Len(network) :
           \E i \in CallsTo(network[n].by, "Broadcast") :
               /\ calls[network[n].by][i].args[1] = network[n].msg
               /\ calls[network[n].by][i].ret = "nil"
               /\ KindOf(op[network[n].by]) = network[n].kind

\* a request has inserted and then broadcast its object
C2_Witness ==
    \E r \in Reqs :
        /\ CallsTo(r, "Broadcast") # {} /\ SentBy(r) # {}
        /\ op[r] = "SubmitProposerSlashing"

\* request r returned the broadcast error
BroadcastFailed(r) ==
    /\ pc[r] = "done"
    /\ res[r] \in {Internal("Could not broadcast slashing object", "broadcast failed"),
                   Internal("Could not broadcast voluntary exit object", "broadcast failed")}

\* request l is at its pool query, for the pool request r submitted to
ListsPoolOf(l, r) ==
    /\ pc[l] = "pending"
    /\ op[l] \in Lists /\ op[r] \in Submits
    /\ KindOf(op[l]) = KindOf(op[r])

DataKeys(d) == {d[i].key : i \in 1..Len(d)}

\* C3 (no rollback): after a Submit has returned the broadcast error, and as
\* long as nothing outside has consumed its key, its pool holds an object
\* with that key, and a List of that kind that queries the pool returns one.
C3_BroadcastFailureKeeps ==
    /\ [](\A r \in Reqs : (BroadcastFailed(r) /\ undisturbed[r]) =>
              req[r].key \in PoolKeys(pool[KindOf(op[r])]))
    /\ [][\A r, l \in Reqs :
            (BroadcastFailed(r) /\ undisturbed[r] /\ ListsPoolOf(l, r)
                /\ pc'[l] = "done") =>
                (res'[l].code = "OK" /\ req[r].key \in DataKeys(res'[l].data))]_vars

\* a List returned the object of a Submit whose broadcast had failed
C3_Witness ==
    \E r, l \in Reqs :
        /\ BroadcastFailed(r) /\ undisturbed[r]
        /\ op[l] \in Lists /\ KindOf(op[l]) = KindOf(op[r]) /\ pc[l] = "done"
        /\ req[r].key \in DataKeys(res[l].data)

SlashingSubmits == {"SubmitAttesterSlashing", "SubmitProposerSlashing"}

\* request r has run its validator on a fetched snapshot, and it accepted
ValidatedBySnapshot(r) ==
    /\ op[r] \in Submits
    /\ headState[r] # NilState
    /\ \E i \in CallsTo(r, "Verify") : calls[r][i].ret = "nil"
    /\ IF op[r] = "SubmitVoluntaryExit"
       THEN /\ req[r].key \in 1..Len(headState[r].validators)
            /\ VerifyExitAndSignature(headState[r].validators[req[r].key],
                   headState[r].slot, headState[r].fork, V1ToV1Alpha1(req[r]),
                   headState[r].genesisRoot) = "nil"
       ELSE VerifySlashing(headState[r], V1ToV1Alpha1(req[r])) = "nil"

\* C4 (broadcast gating): a slashing Submit that reads DisableBroadcastSlashings
\* as true has inserted its slashing, returns the acknowledgment and calls
\* Broadcast zero times; a SubmitVoluntaryExit that passed validation never
\* reads the flag and its broadcast step calls Broadcast whatever the flag is.
C4_GatedState ==
    /\ \A r \in Reqs : \A i \in CallsTo(r, "featureconfig.Get") :
           /\ op[r] \in SlashingSubmits
           /\ calls[r][i].ret = TRUE =>
                  /\ pc[r] = "done" /\ res[r] = Empty
                  /\ CallsTo(r, "Broadcast") = {} /\ SentBy(r) = {}
                  /\ \E j \in CallsTo(r, "Insert") : j < i /\ calls[r][j].ret = "nil"
    /\ \A r \in Reqs :
           (op[r] = "SubmitVoluntaryExit" /\ pc[r] = "done" /\ ValidatedBySnapshot(r)) =>
               Cardinality(CallsTo(r, "Broadcast")) = 1

C4_BroadcastGating ==
    /\ []C4_GatedState
    /\ [][\A r \in Reqs :
            (op[r] = "SubmitVoluntaryExit" /\ pc[r] = "broadcast" /\ pc'[r] # pc[r]) =>
                /\ Len(calls'[r]) = Len(calls[r]) + 1
                /\ calls'[r][Len(calls'[r])].fn = "Broadcast"
                /\ calls'[r][Len(calls'[r])].args = <<req[r]>>]_vars

\* with the flag set, a slashing was admitted without a broadcast and an exit
\* was broadcast
C4_Witness ==
    \E r, q \in Reqs :
        /\ op[r] \in SlashingSubmits /\ res[r] = Empty /\ CallsTo(r, "Broadcast") = {}
        /\ req[r].key \in PoolKeys(pool[KindOf(op[r])])
        /\ op[q] = "SubmitVoluntaryExit" /\ SentBy(q) # {}
        /\ flag

StateUnavailable == Internal("Could not get head state", "no head state")

\* C5 (no head state): a request of any of the six kinds that starts while
\* there is no head returns the state-unavailable error in that step, which
\* changes no pool and sends nothing; a request whose HeadState call failed
\* has made that one call and no other.
C5_NoHeadState ==
    /\ [](\A r \in Reqs :
              (calls[r] # <<>> /\ calls[r][1].ret[2] # "nil") =>
                  /\ pc[r] = "done" /\ res[r] = StateUnavailable
                  /\ FnsOf(r) = <<"HeadState">>
                  /\ SentBy(r) = {} /\ ~undisturbed[r])
    /\ [][\A r \in Reqs :
            (pc[r] = "idle" /\ pc'[r] # "idle" /\ head = 0) =>
                /\ pc'[r] = "done" /\ res'[r] = StateUnavailable
                /\ op'[r] \in Submits \cup Lists
                /\ pool' = pool /\ network' = network]_vars

\* a Submit and a List have both failed for want of a head state
C5_Witness ==
    \E r, q \in Reqs :
        /\ op[r] \in Submits /\ res[r] = StateUnavailable
        /\ op[q] \in Lists /\ res[q] = StateUnavailable

\* C6 (unknown validator index): a SubmitVoluntaryExit whose Exit names an
\* index that is not in the registry of the snapshot it fetched ends, at the
\* lookup, with the
\* lookup error; it has called HeadState and ValidatorAtIndexReadOnly only (no
\* validation, no insert, no broadcast).
C6_UnknownValidatorIndex ==
    \A r \in Reqs :
        (/\ op[r] = "SubmitVoluntaryExit"
         /\ headState[r] # NilState
         /\ HasExit(req[r])
         /\ req[r].key \notin 1..Len(headState[r].validators)
         /\ pc[r] # "lookup") =>
            /\ pc[r] = "done"
            /\ res[r] = Internal("Could not get exiting validator", "index out of range")
            /\ FnsOf(r) = <<"HeadState", "ValidatorAtIndex">>
            /\ SentBy(r) = {} /\ ~undisturbed[r]

\* an exit for an index beyond the registry was refused while the exits pool
\* held an admitted exit
C6_Witness ==
    \E r \in Reqs :
        /\ op[r] = "SubmitVoluntaryExit"
        /\ res[r] = Internal("Could not get exiting validator", "index out of range")
        /\ HasExit(req[r])
        /\ req[r].key \notin 1..Len(headState[r].validators)
        /\ pool["exit"] # <<>>

\* object o of pool k was submitted by a request whose validator accepted it
\* against the snapshot that request fetched, and which then inserted it
Admitted(k, o) ==
    \E r \in Reqs :
        /\ op[r] = SubmitOf(k)
        /\ V1ToV1Alpha1(req[r]) = o
        /\ ValidatedBySnapshot(r)
        /\ \E j \in CallsTo(r, "Insert") : calls[r][j].ret \in {"nil", "void"}

\* C7 (validated-only pools): every object in a pool, and every object a List
\* has returned, is the object of a Submit of that kind that validated it
\* successfully against its own snapshot before inserting it.
C7_ValidatedOnly ==
    /\ \A k \in Kinds : \A i \in 1..Len(pool[k]) : Admitted(k, pool[k][i])
    /\ \A l \in Reqs : op[l] \in Lists =>
           \A i \in 1..Len(res[l].data) :
               /\ res[l].data[i].ver = "v1"
               /\ Admitted(KindOf(op[l]), V1ToV1Alpha1(res[l].data[i]))

\* a List returned an admitted exit after the head moved to a state that
\* rejects it
C7_Witness ==
    \E l, r \in Reqs :
        /\ op[l] = "ListPoolVoluntaryExits" /\ res[l].data # <<>>
        /\ op[r] = "SubmitVoluntaryExit" /\ res[l].data[1] = req[r]
        /\ headState[l] # headState[r]

\* C8 (exactly-once propagation), as claimed: two Submits of the same object
\* of the same kind, the second of which found the first one's entry still in
\* the pool, do not both broadcast it.
C8_ExactlyOnce ==
    \A r, q \in Reqs :
        (/\ r # q
         /\ op[r] \in Submits /\ op[q] = op[r] /\ req[q] = req[r]
         /\ undisturbed[r] /\ undisturbed[q]) =>
            ~(SentBy(r) # {} /\ SentBy(q) # {})

\* request r returned the acknowledgment
Acked(r) == op[r] \in Submits /\ pc[r] = "done" /\ res[r] = Empty

\* C9 (List reflects Submit): when a List queries its pool after a Submit of
\* that kind has returned the acknowledgment, and nothing outside has consumed
\* that Submit's key, the List succeeds and returns an object with the key of
\* the submitted one.
C9_ListReflectsSubmit ==
    [][\A r, l \in Reqs :
         (Acked(r) /\ undisturbed[r] /\ ListsPoolOf(l, r) /\ pc'[l] = "done") =>
             /\ res'[l].code = "OK"
             /\ \E i \in 1..Len(res'[l].data) :
                    /\ res'[l].data[i].key = req[r].key
                    /\ res'[l].data[i].ver = "v1"]_vars

\* a List returned the object of an acknowledged Submit, after another entry
C9_Witness ==
    \E r, l \in Reqs :
        /\ Acked(r) /\ undisturbed[r]
        /\ op[l] \in Lists /\ KindOf(op[l]) = KindOf(op[r]) /\ pc[l] = "done"
        /\ res[l].data = <<req[r]>>

\* the snapshot request r's HeadState call returned
Fetched(r) == calls[r][1].ret[1]

\* C10 (single snapshot): a request calls HeadState once, first, and every
\* later call of it that takes a state (validator lookup, verification,
\* insertion, listing) is given that very snapshot; the exit verification is
\* given the validator, slot, fork and genesis root of that snapshot.
C10_SingleSnapshot ==
    \A r \in Reqs : calls[r] # <<>> =>
        /\ CallsTo(r, "HeadState") = {1}
        /\ \A i \in 2..Len(calls[r]) :
               LET c == calls[r][i] IN
               /\ c.fn \in {"Insert", "Pending"} => c.args[2] = Fetched(r)
               /\ c.fn = "ValidatorAtIndex" => c.args[1] = Fetched(r)
               /\ (c.fn = "Verify" /\ op[r] \in SlashingSubmits) => c.args[1] = Fetched(r)
               /\ (c.fn = "Verify" /\ op[r] = "SubmitVoluntaryExit") =>
                      /\ c.args[1] = Fetched(r).validators[req[r].key]
                      /\ c.args[2] = Fetched(r).slot
                      /\ c.args[3] = Fetched(r).fork
                      /\ c.args[5] = Fetched(r).genesisRoot

\* a Submit inserted with its own snapshot after the head had moved on
C10_Witness ==
    \E r \in Reqs :
        /\ op[r] \in Submits /\ CallsTo(r, "Insert") # {}
        /\ \E i \in SentBy(r) : i > 1 /\ network[i - 1].kind = KindOf(op[r])
                                   /\ headState[network[i - 1].by] # headState[r]

\* call c returned an error (Pending and featureconfig.Get return none)
CallFailed(c) ==
    IF c.fn \in {"HeadState", "ValidatorAtIndex"} THEN c.ret[2] # "nil"
    ELSE IF c.fn \in {"Verify", "Broadcast"} THEN c.ret # "nil"
    ELSE IF c.fn = "Insert" THEN c.ret \notin {"nil", "void"}
    ELSE FALSE

InsertMsg(name) ==
    IF name = "SubmitAttesterSlashing" THEN "Could not insert attester slashing into pool"
    ELSE IF name = "SubmitProposerSlashing"
         THEN "Could not insert proposer slashing into pool"
    ELSE "no insertion error"

\* C11 (insertion failure surfaced), as claimed: for every kind, exits
\* included, the Submit takes the outcome of its pool insertion, an error or
\* none, and an insertion that returned an error, after a validation that
\* passed, finishes the request with the one Internal insertion error
\* carrying that error; the insertion is then its last call, so it reports no
\* success and calls no Broadcast.
C11_InsertFailureSurfaced ==
    \A r \in Reqs : \A j \in CallsTo(r, "Insert") :
        /\ calls[r][j].ret \in {"nil", "insert failed"}
        /\ CallFailed(calls[r][j]) =>
               /\ \E i \in CallsTo(r, "Verify") : i < j /\ calls[r][i].ret = "nil"
               /\ pc[r] = "done"
               /\ res[r] = Internal(InsertMsg(op[r]), calls[r][j].ret)
               /\ j = Len(calls[r])
               /\ CallsTo(r, "Broadcast") = {}
               /\ SentBy(r) = {} /\ ~undisturbed[r]

\* every step of request r succeeded, the broadcast included unless the flag
\* disabled it
FullSuccess(r) ==
    /\ calls[r] # <<>> /\ calls[r][1].ret[2] = "nil"
    /\ op[r] = "SubmitVoluntaryExit" =>
           \E i \in CallsTo(r, "ValidatorAtIndex") : calls[r][i].ret[2] = "nil"
    /\ \E i \in CallsTo(r, "Verify") : calls[r][i].ret = "nil"
    /\ \E i \in CallsTo(r, "Insert") : calls[r][i].ret \in {"nil", "void"}
    /\ \/ \E i \in CallsTo(r, "Broadcast") : calls[r][i].ret = "nil"
       \/ /\ op[r] \in SlashingSubmits
          /\ CallsTo(r, "Broadcast") = {}
          /\ \E i \in CallsTo(r, "featureconfig.Get") : calls[r][i].ret = TRUE

\* C13 (acknowledgment only on full success), as claimed: a finished Submit
\* carries the empty acknowledgment exactly if its head-state fetch, its validator lookup
\* (exits), its validation and its insertion succeeded and its broadcast
\* succeeded or was disabled by the flag; otherwise it carries an Internal
\* error and no data; an unfinished Submit carries no response.
C13_AckOnlyOnFullSuccess ==
    \A r \in Reqs : op[r] \in Submits =>
        /\ pc[r] # "done" => res[r] = NoRes
        /\ pc[r] = "done" =>
               /\ res[r] = Empty <=> FullSuccess(r)
               /\ res[r] # Empty => (res[r].code = "Internal" /\ res[r].data = <<>>)

\* C14 (fail fast, no retries): a request calls each collaborator at most
\* once, and a call that returned an error is the request's last call: the
\* request is finished with an Internal error that carries that error.
C14_FailFast ==
    \A r \in Reqs :
        /\ \A i, j \in 1..Len(calls[r]) : i # j => calls[r][i].fn # calls[r][j].fn
        /\ \A i \in 1..Len(calls[r]) :
               CallFailed(calls[r][i]) =>
                   /\ i = Len(calls[r])
                   /\ pc[r] = "done"
                   /\ res[r].code = "Internal"
                   /\ res[r].cause = (IF calls[r][i].fn \in {"HeadState", "ValidatorAtIndex"}
                                      THEN calls[r][i].ret[2] ELSE calls[r][i].ret)

\* an exit Submit went through all five calls and failed at the last
C14_Witness ==
    \E r \in Reqs :
        /\ FnsOf(r) = <<"HeadState", "ValidatorAtIndex", "Verify", "Insert", "Broadcast">>
        /\ CallFailed(calls[r][5])
        /\ pc[r] = "done"

\* C12 (List is read-only): no step of a List request changes a pool or the
\* network, whatever else is in flight, and a List request calls HeadState
\* and the pool listing only (no validator, no insertion, no broadcast),
\* whether it succeeds or fails.
C12_ListReadOnly ==
    /\ [](\A l \in Reqs : op[l] \in Lists =>
              /\ \A i \in 1..Len(calls[l]) : calls[l][i].fn \in {"HeadState", "Pending"}
              /\ SentBy(l) = {} /\ ~undisturbed[l])
    /\ [][\A l \in Reqs :
            (pc'[l] # pc[l] /\ op'[l] \in Lists) =>
                (pool' = pool /\ network' = network)]_vars

\* a List returned the entries of its pool, which still holds them
C12_Witness ==
    \E l \in Reqs :
        /\ op[l] \in Lists /\ pc[l] = "done" /\ res[l].data # <<>>
        /\ Translate(pool[KindOf(op[l])]) = res[l].data

\* C16 (flag read per request): a slashing Submit reads
\* DisableBroadcastSlashings once, after its successful insertion; the value
\* the flag has in that step, whatever it was before and whatever other
\* requests read, decides alone: read true, the request is acknowledged without
\* a broadcast; read false, the request goes on to call Broadcast, and does so
\* whatever the flag has become since.
C16_FlagReadPerRequest ==
    [][\A r \in Reqs : op[r] \in SlashingSubmits =>
         /\ (pc[r] = "flag" /\ pc'[r] # "flag") =>
                /\ \E j \in CallsTo(r, "Insert") : calls[r][j].ret = "nil"
                /\ CallsTo(r, "featureconfig.Get") = {}
                /\ calls'[r] = Append(calls[r], Call("featureconfig.Get", <<>>, flag))
                /\ pc'[r] = (IF flag THEN "done" ELSE "broadcast")
                /\ res'[r] = (IF flag THEN Empty ELSE NoRes)
                /\ network' = network
         /\ (pc[r] = "broadcast" /\ pc'[r] # "broadcast") =>
                /\ calls[r][Len(calls[r])] = Call("featureconfig.Get", <<>>, FALSE)
                /\ Len(calls'[r]) = Len(calls[r]) + 1
                /\ calls'[r][Len(calls'[r])].fn = "Broadcast"
         /\ (pc[r] # "flag" /\ pc'[r] # pc[r]) =>
                \A i \in 1..Len(calls'[r]) :
                    calls'[r][i].fn = "featureconfig.Get" => i <= Len(calls[r])]_vars

\* one slashing Submit read the flag as false and has not broadcast yet, the
\* flag was set since, and a later Submit of that kind read it as true and
\* was acknowledged without a broadcast
C16_Witness ==
    \E r, q \in Reqs :
        /\ op[r] \in SlashingSubmits /\ op[q] = op[r]
        /\ \E i \in CallsTo(r, "featureconfig.Get") : calls[r][i].ret = TRUE
        /\ Acked(r) /\ CallsTo(r, "Broadcast") = {}
        /\ \E i \in CallsTo(q, "featureconfig.Get") : calls[q][i].ret = FALSE
        /\ pc[q] = "broadcast"
        /\ flag

\* C19 (kind isolation): a step of a Submit request leaves the pools of the
\* other two kinds as they are.
C19_KindIsolation ==
    [][\A r \in Reqs :
         (pc'[r] # pc[r] /\ op'[r] \in Submits) =>
             \A k \in Kinds \ {KindOf(op'[r])} : pool'[k] = pool[k]]_vars

\* Submits of two kinds have each filled their own pool
C19_Witness ==
    \E r, q \in Reqs :
        /\ op[r] = "SubmitProposerSlashing" /\ op[q] = "SubmitVoluntaryExit"
        /\ undisturbed[r] /\ undisturbed[q]
        /\ PoolKeys(pool["prop"]) = {req[r].key}
        /\ PoolKeys(pool["exit"]) = {req[q].key}
        /\ pool["att"] = <<>>

\* what the validator of handler name says about the v1 object o against
\* state st (for exits after the validator lookup)
Verdict(name, st, o) ==
    IF name = "SubmitVoluntaryExit"
    THEN IF o.key \notin 1..Len(st.validators) THEN "index out of range"
         ELSE VerifyExitAndSignature(st.validators[o.key], st.slot, st.fork,
                  V1ToV1Alpha1(o), st.genesisRoot)
    ELSE VerifySlashing(st, V1ToV1Alpha1(o))

\* C17 (accepted cross-request race): every Submit that has inserted gave the
\* insertion the snapshot it fetched itself and had its object accepted against
\* that snapshot, whatever snapshot other requests hold and whatever the head
\* is by then (the witness is the race itself: two overlapping Submits with
\* different snapshots, and a pool entry the current head rejects).
C17_OwnSnapshot ==
    \A r \in Reqs : \A j \in CallsTo(r, "Insert") :
        /\ calls[r][j].args[2] = headState[r]
        /\ headState[r] = Fetched(r)
        /\ Verdict(op[r], headState[r], req[r]) = "nil"
        /\ \E i \in CallsTo(r, "Verify") : i < j /\ calls[r][i].ret = "nil"

\* two Submits of one kind are in flight, both past their insertion, with
\* different snapshots, and the pool holds the object of one of them, which
\* the current head rejects
C17_Witness ==
    \E r, q \in Reqs :
        /\ r # q /\ op[r] \in Submits /\ op[q] = op[r]
        /\ pc[r] = "broadcast" /\ pc[q] = "broadcast"
        /\ headState[r] # headState[q]
        /\ head # 0
        /\ \E i \in 1..Len(pool[KindOf(op[r])]) :
               pool[KindOf(op[r])][i] = V1ToV1Alpha1(req[r])
        /\ Verdict(op[r], headState[r], req[r]) = "nil"
        /\ Verdict(op[r], StateAt(head), req[r]) # "nil"

\* the message handler name returns when its call to fn fails
MsgFor(name, fn) ==
    IF fn = "HeadState" THEN "Could not get head state"
    ELSE IF fn = "ValidatorAtIndex" THEN "Could not get exiting validator"
    ELSE IF fn = "Verify" THEN InvalidMsg(name)
    ELSE IF fn = "Insert" THEN InsertMsg(name)
    ELSE IF name = "SubmitVoluntaryExit" THEN "Could not broadcast voluntary exit object"
    ELSE "Could not broadcast slashing object"

FailingFns == {"HeadState", "ValidatorAtIndex", "Verify", "Insert", "Broadcast"}

\* C18 (error classification), as claimed: every finished request carries
\* either a result or an error of class Internal; an error comes from the request's last call,
\* which failed, carries the message of that step of that handler and the
\* error that call returned; and within a handler the messages of different
\* steps differ.
C18_ErrorClassification ==
    /\ \A r \in Reqs : pc[r] = "done" =>
           /\ res[r].code \in {"OK", "Internal"}
           /\ res[r].code = "Internal" =>
                  LET c == calls[r][Len(calls[r])] IN
                  /\ CallFailed(c)
                  /\ res[r].msg = MsgFor(op[r], c.fn)
                  /\ res[r].cause = (IF c.fn \in {"HeadState", "ValidatorAtIndex"}
                                     THEN c.ret[2] ELSE c.ret)
                  /\ res[r].cause # "nil"
           /\ res[r].code = "OK" => \A i \in 1..Len(calls[r]) : ~CallFailed(calls[r][i])
    /\ \A name \in Submits \cup Lists : \A f, g \in FailingFns :
           f # g => MsgFor(name, f) # MsgFor(name, g)

Next ==
    \/ \E r \in Reqs : ListPoolAttesterSlashings_HeadState(r)
    \/ \E r \in Reqs : ListPoolAttesterSlashings_Pending(r)
    \/ \E r \in Reqs, o \in WireObjs : SubmitAttesterSlashing_HeadState(r, o)
    \/ \E r \in Reqs : SubmitAttesterSlashing_Verify(r)
    \/ \E r \in Reqs : SubmitAttesterSlashing_Insert(r)
    \/ \E r \in Reqs : SubmitAttesterSlashing_FeatureFlag(r)
    \/ \E r \in Reqs : SubmitAttesterSlashing_Broadcast(r)
    \/ \E r \in Reqs : ListPoolProposerSlashings_HeadState(r)
    \/ \E r \in Reqs : ListPoolProposerSlashings_Pending(r)
    \/ \E r \in Reqs, o \in WireObjs : SubmitProposerSlashing_HeadState(r, o)
    \/ \E r \in Reqs : SubmitProposerSlashing_Verify(r)
    \/ \E r \in Reqs : SubmitProposerSlashing_Insert(r)
    \/ \E r \in Reqs : SubmitProposerSlashing_FeatureFlag(r)
    \/ \E r \in Reqs : SubmitProposerSlashing_Broadcast(r)
    \/ \E r \in Reqs : ListPoolVoluntaryExits_HeadState(r)
    \/ \E r \in Reqs : ListPoolVoluntaryExits_Pending(r)
    \/ \E r \in Reqs, o \in ExitReqs : SubmitVoluntaryExit_HeadState(r, o)
    \/ \E r \in Reqs : SubmitVoluntaryExit_ValidatorAtIndex(r)
    \/ \E r \in Reqs : SubmitVoluntaryExit_Verify(r)
    \/ \E r \in Reqs : SubmitVoluntaryExit_Insert(r)
    \/ \E r \in Reqs : SubmitVoluntaryExit_Broadcast(r)
    \/ \E h \in 0..NumHeads : HeadChange(h)
    \/ \E b \in BOOLEAN : SetFlag(b)
    \/ \E k \in Kinds, i \in 1..NumKeys : Consume(k, i)

Spec == Init /\ [][Next]_vars
\* ------------------------------------------------- the gateway with filled pools
\* what a pool may hold after earlier Submits: objects with a valid signature,
\* one per validator index, in the order of their insertion
PoolContents ==
    {p \in UNION {[1..n -> [ver : {"v1alpha1"}, key : Keys, sig : {"a"}]] : n \in 0..NumKeys} :
        \A i, j \in 1..Len(p) : i # j => p[i].key # p[j].key}

\* the gateway some time after construction: the pools are filled, no
\* request is in flight
InitList ==
    /\ head = 1
    /\ flag = FALSE
    /\ pool \in [Kinds -> PoolContents]
    /\ network = <<>>
    /\ pc = [r \in Reqs |-> "idle"]
    /\ op = [r \in Reqs |-> "none"]
    /\ req = [r \in Reqs |-> NoObj]
    /\ headState = [r \in Reqs |-> NilState]
    /\ validator = [r \in Reqs |-> NilValidator]
    /\ res = [r \in Reqs |-> NoRes]
    /\ calls = [r \in Reqs |-> <<>>]
    /\ undisturbed = [r \in Reqs |-> FALSE]

\* the List handlers run concurrently, the head moves, the pools are consumed
NextList ==
    \/ \E r \in Reqs : ListPoolAttesterSlashings_HeadState(r)
    \/ \E r \in Reqs : ListPoolAttesterSlashings_Pending(r)
    \/ \E r \in Reqs : ListPoolProposerSlashings_HeadState(r)
    \/ \E r \in Reqs : ListPoolProposerSlashings_Pending(r)
    \/ \E r \in Reqs : ListPoolVoluntaryExits_HeadState(r)
    \/ \E r \in Reqs : ListPoolVoluntaryExits_Pending(r)
    \/ \E h \in 0..NumHeads : HeadChange(h)
    \/ \E k \in Kinds, i \in 1..NumKeys : Consume(k, i)

SpecList == InitList /\ [][NextList]_vars

\* C15 (List result shape): a finished List whose head state was available
\* made exactly two calls, HeadState and the unbounded Pending listing of its
\* pool with the fetched state (and its slot, for exits), and returned a Data
\* collection as long as the listing whose element i is the wire translation
\* of element i of the listing; an empty listing gives an empty collection,
\* not an error.
C15_ListResultShape ==
    \A r \in Reqs :
        (op[r] \in Lists /\ pc[r] = "done" /\ calls[r][1].ret[2] = "nil") =>
            LET st == calls[r][1].ret[1]
                c == calls[r][2]
            IN  /\ Len(calls[r]) = 2
                /\ c.fn = "Pending"
                /\ c.args = (IF op[r] = "ListPoolVoluntaryExits"
                             THEN <<"exit", st, st.slot, TRUE>>
                             ELSE <<KindOf(op[r]), st, TRUE>>)
                /\ res[r].code = "OK"
                /\ Len(res[r].data) = Len(c.ret)
                /\ \A i \in 1..Len(c.ret) : res[r].data[i] = V1Alpha1ToV1(c.ret[i])
                /\ c.ret = <<>> => res[r] = Data(<<>>)

\* one List returned two elements in the order of its pool while another
\* returned the empty collection of an empty pool
C15_Witness ==
    \E r, q \in Reqs :
        /\ op[r] \in Lists /\ pc[r] = "done"
        /\ Len(res[r].data) = 2
        /\ res[r].data = Translate(pool[KindOf(op[r])])
        /\ res[r].data[1].key = 2 /\ res[r].data[2].key = 1
        /\ op[q] \in Lists /\ pc[q] = "done"
        /\ pool[KindOf(op[q])] = <<>>
        /\ res[q] = Data(<<>>)
\* ------------------------------------------------------------ termination
\* the steps of request r after its first one: each is a synchronous call to
\* a collaborator followed by the handler's own code
Step(r) ==
    \/ ListPoolAttesterSlashings_Pending(r)
    \/ SubmitAttesterSlashing_Verify(r)
    \/ SubmitAttesterSlashing_Insert(r)
    \/ SubmitAttesterSlashing_FeatureFlag(r)
    \/ SubmitAttesterSlashing_Broadcast(r)
    \/ ListPoolProposerSlashings_Pending(r)
    \/ SubmitProposerSlashing_Verify(r)
    \/ SubmitProposerSlashing_Insert(r)
    \/ SubmitProposerSlashing_FeatureFlag(r)
    \/ SubmitProposerSlashing_Broadcast(r)
    \/ ListPoolVoluntaryExits_Pending(r)
    \/ SubmitVoluntaryExit_ValidatorAtIndex(r)
    \/ SubmitVoluntaryExit_Verify(r)
    \/ SubmitVoluntaryExit_Insert(r)
    \/ SubmitVoluntaryExit_Broadcast(r)

\* every collaborator call returns and the goroutine of every request in
\* flight is scheduled
SpecFair == Spec /\ \A r \in Reqs : WF_vars(Step(r))

\* C20 (every request terminates), as claimed: a request in flight
\* eventually holds a terminal response, an acknowledgment, a listing or an error, whatever the
\* other requests, the head and the flag do.
C20_Terminates ==
    \A r \in Reqs :
        (pc[r] \notin {"idle", "done"}) ~>
            (pc[r] = "done" /\ res[r].code \in {"OK", "Internal"})

====
